---- MODULE Spec2Model ----
(***************************************************************************)
(* A model of src/app.py: the room registry GAME_ROOMS, the session        *)
(* directory USERS, the registry lock LOCK, the per-room locks, and the     *)
(* Socket.IO handlers on_create_character, on_join, on_leave and            *)
(* handle_message with the narrator call call_ai_as_dm.                     *)
(*                                                                          *)
(* Every handler runs in a task of its own, and the steps of concurrently   *)
(* running handlers interleave.  A step is one access to the shared state   *)
(* (GAME_ROOMS, a room object, USERS, the transport's rooms), together with *)
(* the local statements and the emits that follow it; `with lock:` blocks a *)
(* task until the lock is free.  Acquiring a lock is taken in one step with *)
(* the first statement of its block and releasing it with the last one:     *)
(* no other task can act on what the lock protects in between.              *)
(* A room is a heap object (the dict stored under GAME_ROOMS[room_id]): a   *)
(* handler that keeps a reference to it (room_data) keeps the object alive  *)
(* after the registry entry is deleted or replaced.  Strings whose content  *)
(* the code inspects are sequences of one-character strings.                *)
(***************************************************************************)
EXTENDS Integers, Sequences, FiniteSets, TLC

\* ------------------------------------------------------------- bounds ----
\* The narrator-triggering messages handled in one behaviour.
MaxCalls == 2

\* Connections (request.sid), handler tasks, room ids a client may name.
Conns == {"s1", "s2"}
Procs == {"t1", "t2"}
DEFAULT_ROOM == "main_adventure"
Rooms == {DEFAULT_ROOM, "crypt"}
\* data.get('room') of a join event: absent/empty, or a room id.
JoinData == {"", "crypt"}
\* data of a create_character event.
CreateData ==
    { [username |-> "ann", charClass |-> "Fighter", maxHP |-> 12],
      [username |-> "bob", charClass |-> "Wizard",  maxHP |-> 8] }

\* ------------------------------------------------------------ strings ----
UPPER == <<"A","B","C","D","E","F","G","H","I","J","K","L","M",
           "N","O","P","Q","R","S","T","U","V","W","X","Y","Z">>
LOWER == <<"a","b","c","d","e","f","g","h","i","j","k","l","m",
           "n","o","p","q","r","s","t","u","v","w","x","y","z">>
DIGIT == <<"0","1","2","3","4","5","6","7","8","9">>

LowerChar(c) ==
    IF \E i \in 1..Len(UPPER) : UPPER[i] = c
    THEN LOWER[CHOOSE i \in 1..Len(UPPER) : UPPER[i] = c]
    ELSE c

\* str.lower()
Lower(s) == [i \in 1..Len(s) |-> LowerChar(s[i])]

\* Python's `sub in s` on strings.
Contains(s, sub) ==
    \E i \in 0..(Len(s) - Len(sub)) : SubSeq(s, i + 1, i + Len(sub)) = sub

\* str.startswith
StartsWith(s, pre) ==
    Len(pre) <= Len(s) /\ SubSeq(s, 1, Len(pre)) = pre

\* str(n) of a natural number, as an f-string renders it.
RECURSIVE Str(_)
Str(n) == IF n < 10 THEN <<DIGIT[n + 1]>>
          ELSE Str(n \div 10) \o <<DIGIT[(n % 10) + 1]>>

\* The number of occurrences of the character c in s.
CountChar(s, c) == Cardinality({i \in 1..Len(s) : s[i] = c})

\* ----------------------------------------------------- text constants ----
ADVENTURE_OPENING == <<"A"," ","n","e","w"," ","a","d","v","e","n","t","u","r","e"," ","b","e","g","i","n","s"," ","i","n"," ","a"," ","v","a","s","t"," ","w","o","r","l","d"," ","o","f"," ","m","a","g","i","c"," ","a","n","d"," ","m","y","s","t","e","r","y",".">>
PARTY_OPENING == <<"A"," ","n","e","w"," ","p","a","r","t","y"," ","f","o","r","m","s","."," ","W","h","a","t"," ","a","d","v","e","n","t","u","r","e","s"," ","a","w","a","i","t","?">>
DM_ERROR == <<"D","M"," ","E","r","r","o","r",":"," ">>
DM_ERROR_TAIL == <<" ","-"," ","C","h","e","c","k"," ","A","P","I"," ","k","e","y","/","q","u","o","t","a","s",".">>
DM_EXCEPTION == <<"D","M"," ","E","x","c","e","p","t","i","o","n",":"," ">>
DM_ROLLS == <<" ","(","D","M"," ","r","o","l","l","s",":"," ">>
ON_D20 == <<" ","o","n"," ","d","2","0",")">>

\* Trigger words of handle_message, call_ai_as_dm and the loot check.
ACTION_PREFIXES == { <<"i"," ">>, <<"w","e"," ">>,
                     <<"g","r","o","u","p",":"," ">>,
                     <<"t","h","e"," ","p","a","r","t","y"," ">> }
ACTION_WORDS == { <<"a","t","t","a","c","k">>, <<"c","a","s","t">>,
                  <<"i","n","v","e","s","t","i","g","a","t","e">>,
                  <<"r","o","l","l">>, <<"?">> }
DICE_WORDS == { <<"r","o","l","l">>, <<"a","t","t","a","c","k">>,
                <<"c","h","e","c","k">> }
LOOT_WORDS == { <<"f","i","n","d">>, <<"l","o","o","t">>,
                <<"t","r","e","a","s","u","r","e">> }
LOOT_TABLE == <<"Potion of Healing", "Rusty Sword", "Gold Coin", "Magic Scroll">>

\* ------------------------------------------------------------- inputs ----
\* data['message'] of a message event.
Messages == { <<"h","e","l","l","o">>,
              <<"H","i"," ","a","l","l">>,
              <<"I"," ","g","o">>,
              <<"C","A","S","T">>,
              <<"w","h","y","?">> }
\* Reply texts of the narrator service (status 200).
Replies == { <<"L","o","o","t"," ","a","h","e","a","d">>,
             <<"R","o","l","l"," ","n","o","w">>,
             <<"A"," ","d","o","o","r">> }
\* Non-200 status codes and str(e) of a transport exception (a timeout).
StatusCodes == {500}
ExceptionTexts == { <<"t","i","m","e","d"," ","o","u","t">> }
\* datetime.now().strftime('%H:%M')
Clock == { <<"1","2",":","0","0">> }
\* random.randint(1, 20): the two ends of the range.
D20_SIDES == 20
DieDraws == {1, D20_SIDES}


CURRENT_TALE == <<"C","u","r","r","e","n","t"," ","t","a","l","e",":"," ">>
ELLIPSIS == <<".",".",".">>
\* story_state[-500:]
TALE_CHARS == 500

\* -------------------------------------------------------------- state ----
VARIABLES
    GAME_ROOMS,   \* the dict room_id -> room object (an id of heap)
    heap,         \* the room objects: story_state, players, lock
    LOCK,         \* the registry lock: Free or the task holding it
    USERS,        \* the dict session_id -> session
    sio,          \* the transport's rooms: room id -> connections in it
    task,         \* each handler task: its position and its locals
    out           \* what the last step sent or raised, in order

vars == <<GAME_ROOMS, heap, LOCK, USERS, sio, task, out>>

Free == "free"
NoRoom == 0
ObjIds == 1..(Cardinality(Rooms) + Cardinality(Procs))

\* A dict: the value v stored under key k, and key k deleted.
Put(f, k, v) == [x \in (DOMAIN f) \cup {k} |-> IF x = k THEN v ELSE f[x]]
Del(f, k) == [x \in (DOMAIN f) \ {k} |-> f[x]]
EmptyDict == [x \in {} |-> 0]

\* {'story_state': opening, 'players': set(), 'lock': Lock()}
NewRoom(opening) == [story_state |-> opening, players |-> {}, lock |-> Free]
Blank == [story_state |-> <<>>, players |-> {}, lock |-> Free]

\* A task that runs no handler.
Idle == [pc |-> "idle", sid |-> "", username |-> "", room_id |-> "",
         room_data |-> NoRoom, ai_response |-> <<>>, loaded |-> <<>>]

\* The room objects some reference still reaches: the registry's, and the ones
\* the running handlers hold (room_data, or the lock of a `with` block).
Reachable(G, T) ==
    ({G[r] : r \in DOMAIN G} \cup {T[p].room_data : p \in Procs}) \ {NoRoom}

\* Reference counting: an object nothing refers to is gone.
Sweep(h, G, T) == [o \in ObjIds |-> IF o \in Reachable(G, T) THEN h[o] ELSE Blank]

\* A room lock that excludes nobody.
RoomLockIgnored(h, o) == TRUE

\* `with room['lock']` enters its block only while no task holds the lock.
RoomLockFree(h, o) == h[o].lock = Free

\* The object a new dict literal gets.
Fresh(G, T) ==
    CHOOSE o \in ObjIds \ Reachable(G, T) :
        \A q \in ObjIds \ Reachable(G, T) : o <= q

\* ------------------------------------------------------------ outputs ----
\* A step that sends nothing.
Quiet == <<>>
\* emit(event, data, ...) delivered to the connections `to`, from a handler of `from`.
Emit(event, data, to, from) ==
    [event |-> event, data |-> data, to |-> to, sid |-> from]
\* An exception that leaves the handler `handler` of connection `from`.
Raise(handler, from) ==
    [event |-> "exception", data |-> <<"KeyError", handler>>, to |-> {}, sid |-> from]

\* {k: {'players': len(v['players'])} for k, v in GAME_ROOMS.items()}
RoomCounts(G, h) == [r \in DOMAIN G |-> Cardinality(h[G[r]].players)]
\* ... if v.get('players')
NonEmptyRoomCounts(G, h) ==
    [r \in {k \in DOMAIN G : h[G[k]].players # {}} |-> Cardinality(h[G[r]].players)]

\* s[-n:]
Suffix(s, n) == IF Len(s) <= n THEN s ELSE SubSeq(s, Len(s) - n + 1, Len(s))

\* --------------------------------------------------- pure functions ----
\* handle_message's test for an action.
ShouldNarrate(message) ==
    \/ \E prefix \in ACTION_PREFIXES : Contains(Lower(message), prefix)
    \/ \E word \in ACTION_WORDS : Contains(Lower(message), word)

\* The message texts that are actions: line 164 over the texts of the model.
ActionTexts == {message \in Messages : ShouldNarrate(message)}

\* call_ai_as_dm's test for a dice roll.
MentionsDice(ai_response) ==
    \E d \in DICE_WORDS : Contains(Lower(ai_response), d)

\* A test for an item that compares the reply as it is spelled.
MentionsLootAsSpelled(ai_response) ==
    \E word \in LOOT_WORDS : Contains(ai_response, word)

\* handle_message's test for an item.
MentionsLoot(ai_response) ==
    \E word \in LOOT_WORDS : Contains(Lower(ai_response), word)

\* generate_dice_roll(): num draws of the die plus the modifier, for the
\* defaults num = 1, modifier = 0.
generate_dice_roll(draw) == draw + 0

\* An entry put in front of the story.
PrependStory(story_state, now, ai_response) ==
    <<"\n">> \o now \o <<":", " ">> \o ai_response \o story_state

\* room_data['story_state'] += f"\n{now}: {ai_response}"
AppendStory(story_state, now, ai_response) ==
    story_state \o <<"\n">> \o now \o <<":", " ">> \o ai_response

\* The session create_character stores.
NewSession(data) ==
    [username |-> data.username,
     character |-> [class |-> data.charClass, hp |-> data.maxHP, inventory |-> <<>>],
     room |-> DEFAULT_ROOM]

Init ==
    /\ GAME_ROOMS = EmptyDict
    /\ heap = [o \in ObjIds |-> Blank]
    /\ LOCK = Free
    /\ USERS = EmptyDict
    /\ sio = [r \in Rooms |-> {}]
    /\ task = [p \in Procs |-> Idle]
    /\ out = Quiet

At(p, label) == task[p].pc = label
Goto(p, label) == [task EXCEPT ![p].pc = label]
Return(p) == [task EXCEPT ![p] = Idle]

\* The story entries call_ai_as_dm has appended to a story.
Entries(story_state) == CountChar(story_state, "\n")

RECURSIVE SumOver(_, _)
SumOver(S, f) ==
    IF S = {} THEN 0
    ELSE LET x == CHOOSE y \in S : TRUE IN f[x] + SumOver(S \ {x}, f)

\* The positions of handle_message and call_ai_as_dm.
MessagePcs == {"c44", "c48", "c71", "c81", "c82", "m168"}
\* Handlers between the acceptance of an action and its reply to the room.
InFlight == Cardinality({p \in Procs : task[p].pc \in MessagePcs})
\* Story entries and inventory items held in the state.
Recorded ==
    SumOver(ObjIds, [o \in ObjIds |-> Entries(heap[o].story_state)])
    + SumOver(DOMAIN USERS,
              [c \in DOMAIN USERS |-> Len(USERS[c].character.inventory)])

\* ------------------------------------------------ on_create_character ----
\* Lines 99-105.
on_create_character(c, data) ==
    /\ USERS' = Put(USERS, c, NewSession(data))
    /\ out' = <<Emit("character_update", [inventory |-> <<>>], {c}, c)>>
    /\ UNCHANGED <<GAME_ROOMS, heap, LOCK, sio, task>>

\* ------------------------------------------------------------ on_join ----
\* A join that enters the transport's room before it looks for the session.
on_join_no_session_joined(c) ==
    /\ c \notin DOMAIN USERS
    /\ sio' = [sio EXCEPT ![DEFAULT_ROOM] = @ \cup {c}]
    /\ out' = <<Emit("message", [username |-> "System",
                                 message |-> <<"Create a character first!">>], {c}, c)>>
    /\ UNCHANGED <<GAME_ROOMS, heap, LOCK, USERS, task>>

\* Lines 109-112: no session, a private hint and nothing else.
on_join_no_session(c) ==
    /\ c \notin DOMAIN USERS
    /\ out' = <<Emit("message", [username |-> "System",
                                 message |-> <<"Create a character first!">>], {c}, c)>>
    /\ UNCHANGED <<GAME_ROOMS, heap, LOCK, USERS, sio, task>>

\* data['room'] if data.get('room') else DEFAULT_ROOM
RoomOf(data) == IF data # "" THEN data ELSE DEFAULT_ROOM

\* Lines 109-118: the session's name, the room (the default one when the event
\* names none), USERS[sid]['room'] and the transport's join_room.
on_join_begin(p, c, data) ==
    /\ At(p, "idle")
    /\ c \in DOMAIN USERS
    /\ task' = [task EXCEPT ![p] = [Idle EXCEPT !.pc = "j119", !.sid = c,
                                    !.username = USERS[c].username,
                                    !.room_id = RoomOf(data)]]
    /\ USERS' = [USERS EXCEPT ![c].room = RoomOf(data)]
    /\ sio' = [sio EXCEPT ![RoomOf(data)] = @ \cup {c}]
    /\ out' = Quiet
    /\ UNCHANGED <<GAME_ROOMS, heap, LOCK>>

\* Line 119: if room_id not in GAME_ROOMS
on_join_119(p) ==
    /\ At(p, "j119")
    /\ task' = Goto(p, IF task[p].room_id \notin DOMAIN GAME_ROOMS
                       THEN "j120" ELSE "j122")
    /\ out' = Quiet
    /\ UNCHANGED <<GAME_ROOMS, heap, LOCK, USERS, sio>>

\* Line 120: GAME_ROOMS[room_id] = {...}, outside any lock.
on_join_120(p) ==
    /\ At(p, "j120")
    /\ LET o == Fresh(GAME_ROOMS, task)
           G == Put(GAME_ROOMS, task[p].room_id, o)
           T == Goto(p, "j122") IN
        /\ GAME_ROOMS' = G
        /\ task' = T
        /\ heap' = Sweep([heap EXCEPT ![o] = NewRoom(PARTY_OPENING)], G, T)
    /\ out' = Quiet
    /\ UNCHANGED <<LOCK, USERS, sio>>

\* f'{username} joins {room_id}! The tale unfolds...'
JoinNotice(p) ==
    Emit("message",
         [username |-> "System",
          message |-> <<task[p].username, " joins ", task[p].room_id,
                       "! The tale unfolds...">>],
         sio[task[p].room_id], task[p].sid)

\* Lines 122-125: with LOCK: GAME_ROOMS[room_id]['players'].add(username), then
\* the join notice to the room. The subscript raises KeyError when the room is
\* gone, and the handler ends there.
on_join_122(p) ==
    /\ At(p, "j122")
    /\ LOCK = Free
    /\ \/ /\ task[p].room_id \in DOMAIN GAME_ROOMS
          /\ heap' = [heap EXCEPT ![GAME_ROOMS[task[p].room_id]].players =
                                      @ \cup {task[p].username}]
          /\ task' = Goto(p, "j126")
          /\ out' = <<JoinNotice(p)>>
       \/ /\ task[p].room_id \notin DOMAIN GAME_ROOMS
          /\ heap' = heap
          /\ task' = Return(p)
          /\ out' = <<Raise("on_join", task[p].sid)>>
    /\ UNCHANGED <<GAME_ROOMS, LOCK, USERS, sio>>

\* Line 126: the room list to every connection.
on_join_126(p) ==
    /\ At(p, "j126")
    /\ out' = <<Emit("room_update", [rooms |-> RoomCounts(GAME_ROOMS, heap)],
                     Conns, task[p].sid)>>
    /\ task' = Goto(p, "j129")
    /\ UNCHANGED <<GAME_ROOMS, heap, LOCK, USERS, sio>>

\* Line 129: with GAME_ROOMS[room_id]['lock']. The lock object is looked up
\* (KeyError when the room is gone) and acquired; the handler keeps that object
\* until the block ends. When the lock is held, the handler waits for it.
on_join_129(p) ==
    /\ At(p, "j129")
    /\ \/ /\ task[p].room_id \in DOMAIN GAME_ROOMS
          /\ LET o == GAME_ROOMS[task[p].room_id] IN
              IF RoomLockFree(heap, o)
              THEN /\ heap' = [heap EXCEPT ![o].lock = p]
                   /\ task' = [task EXCEPT ![p].pc = "j130", ![p].room_data = o]
              ELSE /\ heap' = heap
                   /\ task' = [task EXCEPT ![p].pc = "j129w", ![p].room_data = o]
          /\ out' = Quiet
       \/ /\ task[p].room_id \notin DOMAIN GAME_ROOMS
          /\ heap' = heap
          /\ task' = Return(p)
          /\ out' = <<Raise("on_join", task[p].sid)>>
    /\ UNCHANGED <<GAME_ROOMS, LOCK, USERS, sio>>

\* Line 129, after a wait: the lock is acquired.
on_join_129_acquire(p) ==
    /\ At(p, "j129w")
    /\ RoomLockFree(heap, task[p].room_data)
    /\ heap' = [heap EXCEPT ![task[p].room_data].lock = p]
    /\ task' = Goto(p, "j130")
    /\ out' = Quiet
    /\ UNCHANGED <<GAME_ROOMS, LOCK, USERS, sio>>

\* Lines 130-131: the last 500 characters of the story to the joiner, and the
\* room lock released. The subscript raises KeyError when the room is gone.
on_join_130(p) ==
    /\ At(p, "j130")
    /\ LET T == Return(p)
           h == [heap EXCEPT ![task[p].room_data].lock = Free] IN
        /\ task' = T
        /\ heap' = Sweep(h, GAME_ROOMS, T)
    /\ \/ /\ task[p].room_id \in DOMAIN GAME_ROOMS
          /\ LET current_state ==
                   Suffix(heap[GAME_ROOMS[task[p].room_id]].story_state, TALE_CHARS)
             IN out' = <<Emit("message",
                              [username |-> "DM (AI)",
                               message |-> CURRENT_TALE \o current_state \o ELLIPSIS],
                              {task[p].sid}, task[p].sid)>>
       \/ /\ task[p].room_id \notin DOMAIN GAME_ROOMS
          /\ out' = <<Raise("on_join", task[p].sid)>>
    /\ UNCHANGED <<GAME_ROOMS, LOCK, USERS, sio>>

\* ----------------------------------------------------------- on_leave ----
\* Lines 135-137: no session, nothing happens.
on_leave_no_session(c) ==
    /\ c \notin DOMAIN USERS
    /\ out' = Quiet
    /\ UNCHANGED <<GAME_ROOMS, heap, LOCK, USERS, sio, task>>

\* Lines 135-141: the session's name and room, and the transport's leave_room.
on_leave_begin(p, c) ==
    /\ At(p, "idle")
    /\ c \in DOMAIN USERS
    /\ task' = [task EXCEPT ![p] = [Idle EXCEPT !.pc = "l142", !.sid = c,
                                    !.username = USERS[c].username,
                                    !.room_id = USERS[c].room]]
    /\ sio' = [sio EXCEPT ![USERS[c].room] = @ \ {c}]
    /\ out' = Quiet
    /\ UNCHANGED <<GAME_ROOMS, heap, LOCK, USERS>>

\* f'{username} departs the realm.'
LeaveNotice(p) ==
    Emit("message",
         [username |-> "System",
          message |-> <<task[p].username, " departs the realm.">>],
         sio[task[p].room_id], task[p].sid)

\* Lines 142-144: with LOCK: if room_id in GAME_ROOMS:
\* ...['players'].discard(username). When the room is not in the registry the
\* block ends, LOCK is released and the leave notice of line 148 is sent.
on_leave_142(p) ==
    /\ At(p, "l142")
    /\ LOCK = Free
    /\ \/ /\ task[p].room_id \in DOMAIN GAME_ROOMS
          /\ heap' = [heap EXCEPT ![GAME_ROOMS[task[p].room_id]].players =
                                      @ \ {task[p].username}]
          /\ task' = Goto(p, "l145")
          /\ LOCK' = p
          /\ out' = Quiet
       \/ /\ task[p].room_id \notin DOMAIN GAME_ROOMS
          /\ heap' = heap
          /\ task' = Goto(p, "l149")
          /\ LOCK' = LOCK
          /\ out' = <<LeaveNotice(p)>>
    /\ UNCHANGED <<GAME_ROOMS, USERS, sio>>

\* Lines 145-148: if not ...['players']: del GAME_ROOMS[room_id]; LOCK is
\* released and the leave notice sent to the room.
on_leave_145(p) ==
    /\ At(p, "l145")
    /\ LET T == Goto(p, "l149")
           G == IF heap[GAME_ROOMS[task[p].room_id]].players = {}
                THEN Del(GAME_ROOMS, task[p].room_id) ELSE GAME_ROOMS IN
        /\ GAME_ROOMS' = G
        /\ task' = T
        /\ heap' = Sweep(heap, G, T)
    /\ LOCK' = Free
    /\ out' = <<LeaveNotice(p)>>
    /\ UNCHANGED <<USERS, sio>>

\* Line 149: the list of the rooms that have players to every connection.
on_leave_149(p) ==
    /\ At(p, "l149")
    /\ out' = <<Emit("room_update", [rooms |-> NonEmptyRoomCounts(GAME_ROOMS, heap)],
                     Conns, task[p].sid)>>
    /\ task' = Return(p)
    /\ UNCHANGED <<GAME_ROOMS, heap, LOCK, USERS, sio>>

\* ----------------------------------------------------- handle_message ----
\* Lines 153-155: no session, nothing happens.
handle_message_no_session(c) ==
    /\ c \notin DOMAIN USERS
    /\ out' = Quiet
    /\ UNCHANGED <<GAME_ROOMS, heap, LOCK, USERS, sio, task>>

\* An echo that goes to the sender as well.
EchoToAll(c, message) ==
    Emit("message", [username |-> USERS[c].username, message |-> message],
         sio[USERS[c].room], c)

\* Line 161: emit(..., room=room_id, include_self=False)
Echo(c, message) ==
    Emit("message", [username |-> USERS[c].username, message |-> message],
         sio[USERS[c].room] \ {c}, c)

\* Lines 153-164 for a message that is no action: the echo, and the handler ends.
handle_message_chat(c, message) ==
    /\ c \in DOMAIN USERS
    /\ message \notin ActionTexts
    /\ out' = <<Echo(c, message)>>
    /\ UNCHANGED <<GAME_ROOMS, heap, LOCK, USERS, sio, task>>

\* Lines 153-166 for an action: the echo, and the handler enters call_ai_as_dm.
handle_message_action(p, c, message) ==
    /\ At(p, "idle")
    /\ c \in DOMAIN USERS
    /\ message \in ActionTexts
    /\ InFlight + Recorded < MaxCalls
    /\ out' = <<Echo(c, message)>>
    /\ task' = [task EXCEPT ![p] = [Idle EXCEPT !.pc = "c44", !.sid = c,
                                    !.username = USERS[c].username,
                                    !.room_id = USERS[c].room]]
    /\ UNCHANGED <<GAME_ROOMS, heap, LOCK, USERS, sio>>

\* ------------------------------------------------------ call_ai_as_dm ----
\* Lines 44-47: with LOCK: the room is created when the registry has none
\* under room_id; room_data = GAME_ROOMS[room_id]. LOCK stays held.
call_ai_as_dm_44(p) ==
    /\ At(p, "c44")
    /\ LOCK = Free
    /\ LOCK' = p
    /\ LET missing == task[p].room_id \notin DOMAIN GAME_ROOMS
           o == IF missing THEN Fresh(GAME_ROOMS, task)
                ELSE GAME_ROOMS[task[p].room_id] IN
        /\ GAME_ROOMS' = IF missing THEN Put(GAME_ROOMS, task[p].room_id, o)
                         ELSE GAME_ROOMS
        /\ heap' = IF missing THEN [heap EXCEPT ![o] = NewRoom(ADVENTURE_OPENING)]
                   ELSE heap
        /\ task' = [task EXCEPT ![p].pc = "c48", ![p].room_data = o]
    /\ out' = Quiet
    /\ UNCHANGED <<USERS, sio>>

\* The request sent inside the `with LOCK` block: LOCK stays held.
call_ai_as_dm_48_in_lock(p) ==
    /\ At(p, "c48")
    /\ RoomLockFree(heap, task[p].room_data)
    /\ task' = Goto(p, "c71")
    /\ out' = Quiet
    /\ UNCHANGED <<GAME_ROOMS, heap, LOCK, USERS, sio>>

\* Lines 48-49 and 71: with room_data['lock'], inside the LOCK block:
\* state = room_data['story_state'] (it only goes into the prompt); both blocks
\* end, the room lock and LOCK are released, and the request is under way.
call_ai_as_dm_48(p) ==
    /\ At(p, "c48")
    /\ RoomLockFree(heap, task[p].room_data)
    /\ LOCK' = Free
    /\ task' = Goto(p, "c71")
    /\ out' = Quiet
    /\ UNCHANGED <<GAME_ROOMS, heap, USERS, sio>>

\* Lines 76-78: the reply, with the roll of a d20 appended when it mentions one.
Annotate(reply, draw) ==
    IF MentionsDice(reply)
    THEN reply \o DM_ROLLS \o Str(generate_dice_roll(draw)) \o ON_D20
    ELSE reply

\* Lines 71-78: requests.post returns status 200 with a reply.
narrator_replies(p, reply, draw) ==
    /\ At(p, "c71")
    /\ task' = [task EXCEPT ![p].pc = "c81", ![p].ai_response = Annotate(reply, draw)]
    /\ out' = Quiet
    /\ UNCHANGED <<GAME_ROOMS, heap, LOCK, USERS, sio>>

\* A failed call that appends its diagnostic to the story before it returns.
FailedAfterAppend(p, text) ==
    LET T == [task EXCEPT ![p].pc = "m168", ![p].room_data = NoRoom,
                          ![p].ai_response = text]
        h == [heap EXCEPT ![task[p].room_data].story_state = @ \o <<"\n">> \o text] IN
    /\ task' = T
    /\ heap' = Sweep(h, GAME_ROOMS, T)
    /\ out' = Quiet
    /\ UNCHANGED <<GAME_ROOMS, LOCK, USERS, sio>>

\* What call_ai_as_dm returns for a failed call; its locals are gone.
Failed(p, text) ==
    LET T == [task EXCEPT ![p].pc = "m168", ![p].room_data = NoRoom,
                          ![p].ai_response = text] IN
    /\ task' = T
    /\ heap' = Sweep(heap, GAME_ROOMS, T)
    /\ out' = Quiet
    /\ UNCHANGED <<GAME_ROOMS, LOCK, USERS, sio>>

\* Lines 84-85: requests.post returns another status.
narrator_status(p, status_code) ==
    /\ At(p, "c71")
    /\ Failed(p, DM_ERROR \o Str(status_code) \o DM_ERROR_TAIL)

\* An exception of requests.post that nothing catches: the handler ends.
narrator_raises_uncaught(p, e) ==
    /\ At(p, "c71")
    /\ task' = Return(p)
    /\ heap' = Sweep(heap, GAME_ROOMS, Return(p))
    /\ out' = <<Raise("handle_message", task[p].sid)>>
    /\ UNCHANGED <<GAME_ROOMS, LOCK, USERS, sio>>

\* Lines 86-87: requests.post raises (the 10 s timeout, a transport error).
narrator_raises(p, e) ==
    /\ At(p, "c71")
    /\ Failed(p, DM_EXCEPTION \o e)

\* Lines 81-82: with room_data['lock'], and the first half of `+=`: the story
\* of room_data is loaded.
call_ai_as_dm_81(p) ==
    /\ At(p, "c81")
    /\ RoomLockFree(heap, task[p].room_data)
    /\ heap' = [heap EXCEPT ![task[p].room_data].lock = p]
    /\ task' = [task EXCEPT ![p].pc = "c82",
                            ![p].loaded = heap[task[p].room_data].story_state]
    /\ out' = Quiet
    /\ UNCHANGED <<GAME_ROOMS, LOCK, USERS, sio>>

\* The entry stored under LOCK, taken inside the room lock.
call_ai_as_dm_82_under_LOCK(p, now) ==
    /\ At(p, "c82")
    /\ LOCK = Free
    /\ LET o == task[p].room_data
           T == [task EXCEPT ![p].pc = "m168", ![p].room_data = NoRoom,
                             ![p].loaded = <<>>]
           h == [heap EXCEPT ![o].story_state =
                                 AppendStory(task[p].loaded, now, task[p].ai_response),
                             ![o].lock = Free] IN
        /\ task' = T
        /\ heap' = Sweep(h, GAME_ROOMS, T)
    /\ out' = Quiet
    /\ UNCHANGED <<GAME_ROOMS, LOCK, USERS, sio>>

\* Lines 82-83: the second half of `+=`: the loaded story with the entry
\* appended is stored in room_data; the room lock is released and the reply
\* returned.
call_ai_as_dm_82(p, now) ==
    /\ At(p, "c82")
    /\ LET o == task[p].room_data
           T == [task EXCEPT ![p].pc = "m168", ![p].room_data = NoRoom,
                             ![p].loaded = <<>>]
           h == [heap EXCEPT ![o].story_state =
                                 AppendStory(task[p].loaded, now, task[p].ai_response),
                             ![o].lock = Free] IN
        /\ task' = T
        /\ heap' = Sweep(h, GAME_ROOMS, T)
    /\ out' = Quiet
    /\ UNCHANGED <<GAME_ROOMS, LOCK, USERS, sio>>

\* ------------------------------------------- handle_message, the reply ----
\* Line 172: the narrator's message to the room.
DmMessage(p) ==
    Emit("message", [username |-> "DM (AI)", message |-> task[p].ai_response],
         sio[task[p].room_id], task[p].sid)

\* Lines 168-172: a reply that mentions loot adds one item of the table to the
\* sender's inventory, and the sender is told; then the reply goes to the room.
handle_message_168(p, choice) ==
    /\ At(p, "m168")
    /\ task' = Return(p)
    /\ \/ /\ MentionsLoot(task[p].ai_response)
          /\ LET new_item == LOOT_TABLE[choice]
                 inv == Append(USERS[task[p].sid].character.inventory, new_item)
             IN /\ USERS' = [USERS EXCEPT ![task[p].sid].character.inventory = inv]
                /\ out' = <<Emit("character_update", [inventory |-> inv],
                                 {task[p].sid}, task[p].sid),
                            DmMessage(p)>>
       \/ /\ ~MentionsLoot(task[p].ai_response)
          /\ USERS' = USERS
          /\ out' = <<DmMessage(p)>>
    /\ UNCHANGED <<GAME_ROOMS, heap, LOCK, sio>>

\* --------------------------------------------------------- get_rooms ----
\* Lines 93-95: GET /api/rooms
get_rooms ==
    /\ out' = <<Emit("rooms", RoomCounts(GAME_ROOMS, heap), {}, "")>>
    /\ UNCHANGED <<GAME_ROOMS, heap, LOCK, USERS, sio, task>>

\* -------------------------------------------------------- disconnect ----
\* The connection c goes away. The transport takes it out of its rooms; the
\* application registers no handler for the event (the handlers are those of
\* 'create_character', 'join', 'leave' and 'message'), so nothing else changes.
disconnect(c) ==
    /\ sio' = [r \in Rooms |-> sio[r] \ {c}]
    /\ out' = Quiet
    /\ UNCHANGED <<GAME_ROOMS, heap, LOCK, USERS, task>>

\* ------------------------------------------------------ specification ----
\* The events of the connections C, of which CC create a character with one of
\* the data U.
Sessions(C, CC, U) ==
    \/ \E c \in CC, data \in U : on_create_character(c, data)
    \/ \E c \in C : on_join_no_session(c)
    \/ \E c \in C : on_leave_no_session(c)
    \/ \E c \in C : handle_message_no_session(c)

\* on_join in the tasks P, for the join data J.
Joins(P, C, J) ==
    \E p \in P :
        \/ \E c \in C, data \in J : on_join_begin(p, c, data)
        \/ on_join_119(p)
        \/ on_join_120(p)
        \/ on_join_122(p)
        \/ on_join_126(p)
        \/ on_join_129(p)
        \/ on_join_130(p)

\* on_join in the tasks P that found the room's lock taken at line 129: with
\* one task no lock is ever found taken.
JoinWaits(P) == \E p \in P : on_join_129_acquire(p)

\* on_leave in the tasks P.
Leaves(P, C) ==
    \E p \in P :
        \/ \E c \in C : on_leave_begin(p, c)
        \/ on_leave_142(p)
        \/ on_leave_145(p)
        \/ on_leave_149(p)

\* handle_message in the tasks P, for the actions among the texts M, the narrator's
\* replies R, the die draws D and the draws I of random.choice.
Turns(P, C, M, R, D, I) ==
    \E p \in P :
        \/ \E c \in C, message \in M : handle_message_action(p, c, message)
        \/ call_ai_as_dm_44(p)
        \/ call_ai_as_dm_48(p)
        \/ \E reply \in R, draw \in D : narrator_replies(p, reply, draw)
        \/ \E status_code \in StatusCodes : narrator_status(p, status_code)
        \/ \E e \in ExceptionTexts : narrator_raises(p, e)
        \/ call_ai_as_dm_81(p)
        \/ \E now \in Clock : call_ai_as_dm_82(p, now)
        \/ \E choice \in I : handle_message_168(p, choice)

\* handle_message for every text of M, chat included.
Talks(P, C, M, R, D, I) ==
    \/ \E c \in C, message \in M : handle_message_chat(c, message)
    \/ Turns(P, C, M, R, D, I)

CoreMessages == { <<"h","e","l","l","o">>, <<"I"," ","g","o">> }
CoreReplies == { <<"L","o","o","t"," ","a","h","e","a","d">> }
Ann == { [username |-> "ann", charClass |-> "Fighter", maxHP |-> 12] }

\* Concurrent handlers: two tasks, the connection s1 with a character and the
\* connection s2 without one, the default room.
Next ==
    \/ Sessions(Conns, {"s1"}, Ann)
    \/ Joins(Procs, Conns, {""})
    \/ JoinWaits(Procs)
    \/ Leaves(Procs, Conns)
    \/ Talks(Procs, Conns, CoreMessages, CoreReplies, {1}, {1})
Spec == Init /\ [][Next]_vars

\* Handlers one at a time: one task, two connections that take either name,
\* the default room.
NextSeq ==
    \/ Sessions(Conns, Conns, CreateData)
    \/ Joins({"t1"}, Conns, {""})
    \/ Leaves({"t1"}, Conns)
    \/ Talks({"t1"}, Conns, CoreMessages, CoreReplies, {1}, {1})
SpecSeq == Init /\ [][NextSeq]_vars

\* Handlers one at a time, with every message text, reply, die draw and item;
\* both connections talk, s1 joins and leaves the default room.
NextText ==
    \/ Sessions(Conns, Conns, Ann)
    \/ Joins({"t1"}, {"s1"}, {""})
    \/ Leaves({"t1"}, {"s1"})
    \/ Talks({"t1"}, Conns, Messages, Replies, DieDraws, 1..Len(LOOT_TABLE))
SpecText == Init /\ [][NextText]_vars

\* Concurrent joins and messages of one connection in two rooms.
NextRooms ==
    \/ Sessions({"s1"}, {"s1"}, Ann)
    \/ Joins({"t2"}, {"s1"}, JoinData)
    \/ JoinWaits({"t2"})
    \/ Talks(Procs, {"s1"}, CoreMessages, CoreReplies, {1}, {1})
SpecRooms == Init /\ [][NextRooms]_vars

\* Handlers one at a time and the room-listing query.
NextLists ==
    \/ Sessions(Conns, Conns, Ann)
    \/ Joins({"t1"}, Conns, {""})
    \/ Leaves({"t1"}, Conns)
    \/ Talks({"t1"}, {"s1"}, CoreMessages, CoreReplies, {1}, {1})
    \/ get_rooms
SpecLists == Init /\ [][NextLists]_vars

\* Handlers one at a time, and connections that go away.
NextGone ==
    \/ Sessions(Conns, Conns, Ann)
    \/ Joins({"t1"}, Conns, {""})
    \/ Leaves({"t1"}, Conns)
    \/ \E c \in Conns : disconnect(c)
SpecGone == Init /\ [][NextGone]_vars

\* Concurrent handlers of one connection: two tasks that join, leave and send
\* narrator-triggering messages.
NextLocks ==
    \/ Sessions({"s1"}, {"s1"}, Ann)
    \/ Joins(Procs, {"s1"}, {""})
    \/ JoinWaits(Procs)
    \/ Leaves(Procs, {"s1"})
    \/ Turns(Procs, {"s1"}, CoreMessages, CoreReplies, {1}, {1})
SpecLocks == Init /\ [][NextLocks]_vars

\* A step of the handler that runs in task p.
Step(p) ==
    \/ on_join_119(p) \/ on_join_120(p) \/ on_join_122(p) \/ on_join_126(p)
    \/ on_join_129(p) \/ on_join_129_acquire(p) \/ on_join_130(p)
    \/ on_leave_142(p) \/ on_leave_145(p) \/ on_leave_149(p)
    \/ call_ai_as_dm_44(p) \/ call_ai_as_dm_48(p)
    \/ \E reply \in CoreReplies : narrator_replies(p, reply, 1)
    \/ \E status_code \in StatusCodes : narrator_status(p, status_code)
    \/ \E e \in ExceptionTexts : narrator_raises(p, e)
    \/ call_ai_as_dm_81(p)
    \/ \E now \in Clock : call_ai_as_dm_82(p, now)
    \/ handle_message_168(p, 1)

\* Messages in task t1 while task t2 joins and leaves, under fair scheduling:
\* a handler that can step again and again does step (a lock that is free
\* again and again is obtained), and requests.post returns or times out.
\* The tasks that run handle_message in this scenario.
Talkers == {"t1"}
NextLive ==
    \/ Sessions({"s1"}, {"s1"}, Ann)
    \/ Joins({"t2"}, {"s1"}, {""})
    \/ JoinWaits({"t2"})
    \/ Leaves({"t2"}, {"s1"})
    \/ Turns(Talkers, {"s1"}, CoreMessages, CoreReplies, {1}, {1})
SpecLive ==
    Init /\ [][NextLive]_vars /\ \A p \in Procs : SF_vars(Step(p))

\* Cooperative scheduling (eventlet.monkey_patch, async_mode='eventlet'): a
\* handler runs until it blocks, and the only call that blocks while no lock
\* is contended is requests.post. A step is taken only while every task that
\* does not take it is idle or waits for the narrator's answer.
Yields == \A q \in Procs : task'[q] = task[q] => task[q].pc \in {"idle", "c71"}
NextYield ==
    /\ \/ Sessions({"s1"}, {"s1"}, CreateData)
       \/ Joins(Procs, {"s1"}, {""})
       \/ Leaves(Procs, {"s1"})
       \/ Talks(Procs, {"s1"}, CoreMessages, CoreReplies, {1}, {1})
    /\ Yields
SpecYield == Init /\ [][NextYield]_vars

\* -------------------------------------------------------------- claims ----
\* No handler is running.
Quiescent == \A p \in Procs : At(p, "idle")

\* The member set the registry holds for a room id; empty when it holds none.
Members(r) == IF r \in DOMAIN GAME_ROOMS THEN heap[GAME_ROOMS[r]].players ELSE {}

\* C1: whenever no handler is running, every room id in the registry has a
\* non-empty member set (a room id is in the registry iff it has members).
C1_NoEmptyRoomInRegistry ==
    Quiescent => \A r \in DOMAIN GAME_ROOMS : Members(r) # {}

\* C2: whenever no handler is running, the size of each room's member set is
\* the number of sessions that joined the room and have not left it since.
\* The transport's room holds exactly those connections: join_room at the
\* join, leave_room at the leave.
C2_MembersCountJoinsMinusLeaves ==
    Quiescent => \A r \in Rooms : Cardinality(Members(r)) = Cardinality(sio[r])

\* C3: no lost updates. While the registry holds the same room object under a
\* room id, every step changes that room's story by exactly one new entry per
\* call that stores its reply in the step, after the story as it was: the
\* entries of concurrent calls are all kept, none overwritten or duplicated.
Stores(p, o) ==
    task[p].pc = "c82" /\ task'[p].pc = "m168" /\ task[p].room_data = o
C3_NoLostStoryUpdate ==
    [][\A r \in DOMAIN GAME_ROOMS :
         (r \in DOMAIN GAME_ROOMS' /\ GAME_ROOMS'[r] = GAME_ROOMS[r]) =>
            LET o == GAME_ROOMS[r]
                before == heap[o].story_state
                after == heap'[o].story_state
                n == Cardinality({p \in Procs : Stores(p, o)})
            IN /\ Entries(after) = Entries(before) + n
               /\ Len(after) >= Len(before)
               /\ SubSeq(after, 1, Len(before)) = before
               /\ \A p \in Procs : Stores(p, o) =>
                    SubSeq(after, Len(after) - Len(task[p].ai_response) + 1, Len(after))
                        = task[p].ai_response
      ]_vars
\* Two calls for one room overlapped, and the room's story holds both entries.
C3_Witness ==
    \E r \in DOMAIN GAME_ROOMS :
        /\ Entries(heap[GAME_ROOMS[r]].story_state) = 2
        /\ \A p \in Procs : At(p, "m168") /\ task[p].room_id = r
                            /\ MentionsLoot(task[p].ai_response)

\* C4: a failed narrator call (another status, a timeout or transport
\* exception) returns a string that holds 'DM Error' or 'DM Exception', raises
\* nothing, and no step of the call changes the story of a room that is in the
\* registry.
DM_ERROR_MARK == <<"D","M"," ","E","r","r","o","r">>
DM_EXCEPTION_MARK == <<"D","M"," ","E","x","c","e","p","t","i","o","n">>
HasFailureMark(text) ==
    Contains(text, DM_ERROR_MARK) \/ Contains(text, DM_EXCEPTION_MARK)
StoriesKept ==
    \A r \in DOMAIN GAME_ROOMS :
        /\ r \in DOMAIN GAME_ROOMS'
        /\ heap'[GAME_ROOMS'[r]].story_state = heap[GAME_ROOMS[r]].story_state
C4_FailedCallKeepsStory ==
    [][\A p \in Procs :
         /\ (task[p].pc \in {"c44", "c48", "c71"} /\ task'[p] # task[p]) => StoriesKept
         /\ (task[p].pc = "c71" /\ task'[p].pc = "m168") =>
               /\ HasFailureMark(task'[p].ai_response)
               /\ \A i \in 1..Len(out') : out'[i].event # "exception"
      ]_vars
\* A call has failed for a room whose story already holds an entry.
C4_Witness ==
    \E p \in Procs :
        /\ At(p, "m168")
        /\ HasFailureMark(task[p].ai_response)
        /\ task[p].room_id \in DOMAIN GAME_ROOMS
        /\ Entries(heap[GAME_ROOMS[task[p].room_id]].story_state) >= 1

\* C5: a handler that waits for the narrator's answer holds neither LOCK nor a
\* room lock; a message handler holds LOCK only for the story read before the
\* call and a room lock only for the append after it.
HoldsRoomLock(p) == \E o \in ObjIds : heap[o].lock = p
C5_NoLockAcrossTheCall ==
    \A p \in Procs :
        /\ At(p, "c71") => (LOCK # p /\ ~HoldsRoomLock(p))
        /\ (task[p].pc \in MessagePcs /\ LOCK = p) => At(p, "c48")
        /\ (task[p].pc \in MessagePcs /\ HoldsRoomLock(p)) => At(p, "c82")
\* One handler waits for the narrator while another holds LOCK.
C5_Witness ==
    \E p, q \in Procs : p # q /\ At(p, "c71") /\ LOCK = q

\* C6: a story operation on one room is blocked only by a lock holder that
\* operates on the same room: a handler that needs LOCK for its story read
\* (line 44) or a room's lock for its read or append (lines 48, 81) waits only
\* for a task whose room_id is its own.
Blockers(p) ==
    IF At(p, "c44") THEN {q \in Procs \ {p} : LOCK = q}
    ELSE IF task[p].pc \in {"c48", "c81"}
         THEN {q \in Procs \ {p} : heap[task[p].room_data].lock = q}
         ELSE {}
StartsAsAction(message) ==
    \/ \E prefix \in ACTION_PREFIXES : StartsWith(Lower(message), prefix)
    \/ \E word \in ACTION_WORDS : Contains(Lower(message), word)
IsEcho(e) == e.event = "message" /\ e.data.username \notin {"System", "DM (AI)"}
NarratorEntered == \E p \in Procs : At(p, "idle") /\ task'[p].pc = "c44"
C7_NarratesIffPrefixOrKeyword ==
    [][\A i \in 1..Len(out') :
         IsEcho(out'[i]) =>
            /\ NarratorEntered <=> StartsAsAction(out'[i].data.message)
            /\ ~NarratorEntered => UNCHANGED <<GAME_ROOMS, heap, LOCK, USERS, sio, task>>
      ]_vars

\* C8: the step of handle_message that follows the narrator call appends
\* exactly one item of the loot table to the sender's inventory when the
\* lowercased reply holds 'find', 'loot' or 'treasure', and leaves the sender's
\* session as it is otherwise; no other session changes, and a
\* character_update goes to the sender alone, with the new inventory.
Inventory(U, c) == U[c].character.inventory
RepliesLoot(text) == \E word \in LOOT_WORDS : Contains(Lower(text), word)
C8_OneItemForALootReply ==
    [][\A p \in Procs :
         (task[p].pc = "m168" /\ task'[p].pc = "idle") =>
            LET c == task[p].sid
                Updates == {i \in 1..Len(out') : out'[i].event = "character_update"}
            IN /\ DOMAIN USERS' = DOMAIN USERS
               /\ \A d \in DOMAIN USERS \ {c} : USERS'[d] = USERS[d]
               /\ IF RepliesLoot(task[p].ai_response)
                  THEN /\ \E i \in 1..Len(LOOT_TABLE) :
                             USERS' = [USERS EXCEPT ![c].character.inventory =
                                           Append(@, LOOT_TABLE[i])]
                       /\ Cardinality(Updates) = 1
                  ELSE USERS' = USERS /\ Updates = {}
               /\ \A i \in Updates :
                     /\ out'[i].to = {c}
                     /\ out'[i].data.inventory = Inventory(USERS', c)
      ]_vars
\* A reply with loot has just put an item into one of two sessions' inventories.
C8_Witness ==
    /\ Cardinality(DOMAIN USERS) = 2
    /\ Len(out) = 2
    /\ out[1].event = "character_update"
    /\ Len(out[1].data.inventory) >= 1
    /\ Inventory(USERS, out[1].sid) = out[1].data.inventory
    /\ \E d \in DOMAIN USERS : Inventory(USERS, d) = <<>>

\* C9: an event from a connection without a session changes nothing. Every
\* running handler belongs to a connection with a session, every change of the
\* registry, the rooms or the transport's rooms is a step of such a handler or
\* of create_character, and an emit for a connection without a session is the
\* private hint, in a step that changes nothing else.
IsHint(e) == e.event = "message" /\ e.data.username = "System" /\ e.to = {e.sid}
C9_NoSessionNoEffect ==
    [][/\ \A p \in Procs : task'[p].pc # "idle" => task'[p].sid \in DOMAIN USERS'
       /\ <<GAME_ROOMS, heap, sio>>' # <<GAME_ROOMS, heap, sio>> =>
             \E p \in Procs :
                /\ task'[p] # task[p]
                /\ (task[p].sid \in DOMAIN USERS \/ task'[p].sid \in DOMAIN USERS')
       /\ \A i \in 1..Len(out') :
             out'[i].sid \notin DOMAIN USERS' =>
                /\ Len(out') = 1
                /\ IsHint(out'[i])
                /\ UNCHANGED <<GAME_ROOMS, heap, LOCK, USERS, sio, task>>
      ]_vars
\* A connection without a session has been sent the hint while a room with a
\* member and a story exists.
C9_Witness ==
    /\ Len(out) = 1
    /\ IsHint(out[1])
    /\ out[1].sid \notin DOMAIN USERS
    /\ \E r \in DOMAIN GAME_ROOMS : Members(r) # {}

\* C10: create_character for a connection that has a session leaves the
\* session as it is.
CreateStep(c) ==
    /\ Len(out') = 1
    /\ out'[1].event = "character_update"
    /\ out'[1].sid = c
    /\ task' = task
C10_DuplicateCreateKeepsSession ==
    [][\A c \in DOMAIN USERS : CreateStep(c) => USERS'[c] = USERS[c]]_vars

\* C11: every room list the system produces, the answer of /api/rooms and a
\* room_update of on_join or on_leave, holds exactly the rooms with at least
\* one member at that moment, each with its member count.
Listing ==
    [r \in {k \in DOMAIN GAME_ROOMS : Members(k) # {}} |-> Cardinality(Members(r))]
C11_ListsOnlyNonEmptyRooms ==
    \A i \in 1..Len(out) :
        /\ out[i].event = "rooms" => out[i].data = Listing
        /\ out[i].event = "room_update" => out[i].data.rooms = Listing

\* C12: a join handler of a session with a character that runs to its end,
\* whatever other handlers run meanwhile, ends without an exception, with its
\* room in the registry and its username in that room's member set.
JoinPcs == {"j119", "j120", "j122", "j126", "j129", "j129w", "j130"}
C13_LeaveOfNonMemberIsNoOp ==
    [][\A p \in Procs :
         (task[p].pc = "l142" /\ task'[p].pc # "l142") =>
            LET r == task[p].room_id
                u == task[p].username
            IN IF r \notin DOMAIN GAME_ROOMS \/ u \notin Members(r)
               THEN /\ GAME_ROOMS' = GAME_ROOMS
                    /\ \A o \in ObjIds : heap'[o].players = heap[o].players
                    /\ ~(task'[p].pc = "l145" /\ heap'[GAME_ROOMS'[r]].players = {})
               ELSE /\ GAME_ROOMS' = GAME_ROOMS
                    /\ heap'[GAME_ROOMS[r]].players = Members(r) \ {u}
      ]_vars

\* C14: when a connection disconnects (the transport drops it from a room
\* while no handler acts), its session is destroyed, and every member the room
\* still has is the username of a session whose connection is still in the room.
Dropped(c) == \E r \in Rooms : c \in sio[r] /\ c \notin sio'[r]
C14_DisconnectRemovesMember ==
    [][(task' = task /\ sio' # sio) =>
          \A c \in Conns :
             Dropped(c) =>
                /\ c \notin DOMAIN USERS'
                /\ \A r \in DOMAIN GAME_ROOMS' :
                      c \in sio[r] =>
                         \A u \in heap'[GAME_ROOMS'[r]].players :
                            \E d \in sio'[r] \cap DOMAIN USERS' : USERS'[d].username = u
      ]_vars

\* C15: a handler that holds a room's lock is never at a statement that
\* acquires LOCK (lines 44, 122, 142), and whenever handlers are running one of
\* them can take a step: no state of concurrent join, leave and message
\* handlers is a deadlock.
WantsLOCK(p) == task[p].pc \in {"c44", "j122", "l142"}
Running ==
    /\ \/ Joins(Procs, {"s1"}, {""})
       \/ JoinWaits(Procs)
       \/ Leaves(Procs, {"s1"})
       \/ Turns(Procs, {"s1"}, CoreMessages, CoreReplies, {1}, {1})
    /\ \E p \in Procs : task[p].pc # "idle" /\ task'[p] # task[p]
C15_LockOrderNoDeadlock ==
    /\ \A p \in Procs : HoldsRoomLock(p) => ~WantsLOCK(p)
    /\ ~Quiescent => ENABLED Running
\* A handler inside the LOCK block waits for a room lock that another handler holds.
C15_Witness ==
    \E p, q \in Procs :
        /\ p # q
        /\ At(p, "c48")
        /\ LOCK = p
        /\ heap[task[p].room_data].lock = q

\* C16: a room's story is append-only, in the order in which the calls took
\* the room's lock. While the registry holds the same room object, a step that
\* changes its story is the step of the one call that holds the room's lock,
\* and the new story is the previous one followed by that call's entry: a
\* newline, the time, ': ' and the call's reply.
EntryOf(p) ==
    {<<"\n">> \o now \o <<":", " ">> \o task[p].ai_response : now \in Clock}
C16_AppendOnlyInLockOrder ==
    [][\A r \in DOMAIN GAME_ROOMS :
         LET o == GAME_ROOMS[r] IN
         (/\ r \in DOMAIN GAME_ROOMS'
          /\ GAME_ROOMS'[r] = o
          /\ heap'[o].story_state # heap[o].story_state) =>
            \E p \in Procs :
               /\ heap[o].lock = p
               /\ task[p].room_data = o
               /\ heap'[o].lock = Free
               /\ \E entry \in EntryOf(p) :
                     heap'[o].story_state = heap[o].story_state \o entry
      ]_vars
\* The second of two calls to take the room's lock is about to append after
\* the entry of the first.
C16_Witness ==
    \E p, q \in Procs :
        /\ p # q
        /\ At(p, "c82") /\ At(q, "m168")
        /\ task[p].room_id \in DOMAIN GAME_ROOMS
        /\ GAME_ROOMS[task[p].room_id] = task[p].room_data
        /\ heap[task[p].room_data].lock = p
        /\ Entries(heap[task[p].room_data].story_state) = 1
        /\ Contains(heap[task[p].room_data].story_state, task[q].ai_response)

\* C17: order of the emits of handle_message. The message is echoed to the
\* sender's current room without the sender, in the step that enters the
\* narrator call when the message triggers it; a handler reaches the reply
\* (line 168) either from the story append (line 82) of a successful call or
\* from a failed call, and only the step after that sends the narrator's
\* message, to the whole room of the message, the sender not excluded.
IsEchoOf(e, c) ==
    /\ e.event = "message"
    /\ e.sid = c
    /\ e.data.username = USERS[c].username
    /\ e.to = sio[USERS[c].room] \ {c}
IsReplyOf(e, p) ==
    /\ e.event = "message"
    /\ e.data = [username |-> "DM (AI)", message |-> task[p].ai_response]
    /\ e.to = sio[task[p].room_id]
EndsWith(s, t) == Len(s) >= Len(t) /\ SubSeq(s, Len(s) - Len(t) + 1, Len(s)) = t
C17_EchoThenAppendThenReply ==
    [][/\ \A i \in 1..Len(out') : IsEcho(out'[i]) => IsEchoOf(out'[i], out'[i].sid)
       /\ \A p \in Procs :
            /\ (task[p].pc = "idle" /\ task'[p].pc = "c44") =>
                  Len(out') = 1 /\ IsEchoOf(out'[1], task'[p].sid)
            /\ (task[p].pc # "m168" /\ task'[p].pc = "m168") =>
                  \/ /\ task[p].pc = "c82"
                     /\ ~HasFailureMark(task'[p].ai_response)
                     /\ heap[task[p].room_data].lock = p
                     /\ \A r \in DOMAIN GAME_ROOMS' :
                          GAME_ROOMS'[r] = task[p].room_data =>
                             EndsWith(heap'[GAME_ROOMS'[r]].story_state, task'[p].ai_response)
                  \/ /\ task[p].pc = "c71"
                     /\ HasFailureMark(task'[p].ai_response)
            /\ (task[p].pc = "m168" /\ task'[p].pc = "idle") =>
                  /\ Len(out') >= 1
                  /\ IsReplyOf(out'[Len(out')], p)
            /\ (task[p].pc # "m168" /\ task'[p] # task[p]) =>
                  \A i \in 1..Len(out') :
                     ~(out'[i].event = "message" /\ out'[i].data.username = "DM (AI)"
                       /\ out'[i].to # {out'[i].sid})
      ]_vars
\* A successful reply has been sent to a room of two connections, the sender
\* among them.
C17_Witness ==
    /\ Len(out) >= 1
    /\ out[Len(out)].event = "message"
    /\ out[Len(out)].data.username = "DM (AI)"
    /\ ~HasFailureMark(out[Len(out)].data.message)
    /\ out[Len(out)].to = Conns
    /\ out[Len(out)].sid \in out[Len(out)].to

\* C18: every narrator-triggering message ends in exactly one message of the
\* narrator to the sender's room. The handler sends nothing between the echo
\* and its last step, its last step sends the text call_ai_as_dm returned (the
\* reply or the diagnostic) to the room and raises nothing, and under fair
\* scheduling every handler that has entered the narrator call ends (stated
\* for the tasks that run handle_message: no other task enters the call).
IsNarratorMessage(e) ==
    e.event = "message" /\ e.data.username = "DM (AI)"
C18_EveryTurnIsAnswered ==
    /\ [][\A p \in Procs :
            /\ (task[p].pc \in MessagePcs /\ task'[p].pc \in MessagePcs
                /\ task'[p] # task[p]) => out' = Quiet
            /\ (task[p].pc \in MessagePcs /\ task'[p].pc = "idle") =>
                  /\ task[p].pc = "m168"
                  /\ Cardinality({i \in 1..Len(out') : IsNarratorMessage(out'[i])}) = 1
                  /\ \A i \in 1..Len(out') :
                        /\ out'[i].event # "exception"
                        /\ IsNarratorMessage(out'[i]) =>
                              /\ out'[i].data.message = task[p].ai_response
                              /\ out'[i].to = sio[task[p].room_id]
                              /\ Len(task[p].ai_response) > 0
         ]_vars
    /\ \A p \in Talkers : At(p, "c44") ~> At(p, "idle")
\* The diagnostic of a failed call has been sent to the room while the other
\* task is inside a join or a leave.
C18_Witness ==
    /\ Len(out) = 1
    /\ IsNarratorMessage(out[1])
    /\ HasFailureMark(out[1].data.message)
    /\ At("t1", "idle")
    /\ ~At("t2", "idle")

\* C19: membership matches the session directory. A username is in the
\* member set of a room only if some session with that username has the room
\* as its current room.
C19_MembersHaveSessionInRoom ==
    \A r \in DOMAIN GAME_ROOMS :
        \A u \in Members(r) :
            \E c \in DOMAIN USERS : USERS[c].username = u /\ USERS[c].room = r

\* C20: a reply is never shown without being recorded. When the last step of
\* handle_message sends a successful reply to a room id that is in the
\* registry, the story the registry holds for that id contains the reply.
C20_ShownReplyIsRecorded ==
    [][\A p \in Procs :
         (/\ task[p].pc = "m168"
          /\ task'[p].pc = "idle"
          /\ ~HasFailureMark(task[p].ai_response)
          /\ task[p].room_id \in DOMAIN GAME_ROOMS') =>
            Contains(heap'[GAME_ROOMS'[task[p].room_id]].story_state,
                     task[p].ai_response)
      ]_vars

====
